---- MODULE Spec2Model ----
(***************************************************************************)
(* The SSH execution engine of ssh-node-runner (src/executor.py), its      *)
(* headless and dashboard callers (src/src/scatter/runner.py,              *)
(* src/dashboard.py), as a state machine.                                  *)
(*                                                                         *)
(* One asyncio task per node runs Executor._run_node.  A step of the model *)
(* is the code a task runs between two suspension points (awaits): the     *)
(* event loop is single-threaded, so that code is atomic.  The SSH         *)
(* transport (asyncssh) is the environment: every awaited transport        *)
(* operation that opens a session, launches a command, reads a stream or   *)
(* waits for the exit code either returns or raises an exception of one of *)
(* the three classes the code's handlers tell apart (asyncssh.Error,       *)
(* OSError, any other Exception).  Closing the session when the            *)
(* "async with" block of _run_node is left suspends the task and then      *)
(* returns; closing a process channel is folded into the step that leaves  *)
(* the process context.                                                    *)
(*                                                                         *)
(* A text is a sequence of newline-free segments: <<"a", "b">> is the      *)
(* Python string "a\nb".  An output line is a text.                        *)
(***************************************************************************)
EXTENDS Naturals, Sequences, FiniteSets, TLC

\* ---------------------------------------------------------------- bounds
MaxCmds == 2

\* ------------------------------------------------------- the configuration
Nodes == {"n1", "n2"}

NodeOrder == <<"n1", "n2">>

PENDING == "pending"

CONNECTING == "connecting"

RUNNING == "running"

SUCCESS == "success"

FAILED == "failed"

NodeStatus == {PENDING, CONNECTING, RUNNING, SUCCESS, FAILED}

\* The i-th configured command (1-based).  The second one is a YAML block
\* scalar of two lines, the others are one-liners.
Command(i) == IF i = 2 THEN <<"c2", "then">> ELSE <<"c" \o ToString(i)>>

\* NodeConfig.commands: n1 has MaxCmds commands, n2 has one
CommandsOf(n) ==
  IF n = "n1" THEN [i \in 1..MaxCmds |-> Command(i)] ELSE <<Command(1)>>

WorkDirOf(n) == IF n = "n1" THEN "/w" ELSE ""

NodeConfigs ==
  [Nodes -> [stop_on_error : BOOLEAN, no_logs : BOOLEAN]]

\* ------------------------------------------------------------- texts
\* f"{prefix}{text}" for a newline-free prefix
Cat(prefix, text) == <<prefix \o Head(text)>> \o Tail(text)

\* f"{a} && {b}" and the like: a text, a newline-free infix, a text
Join(a, infix, b) ==
  SubSeq(a, 1, Len(a) - 1) \o <<a[Len(a)] \o infix \o Head(b)>> \o Tail(b)

\* str(e) of an exception of class e
StrOf(e) == <<e \o " fault">>

ExcClasses == {"ssh", "os", "other"}

ExitStatuses == {0, 2}

\* what the remote process writes: raw lines as readline() returns them
StdoutScript == << [text |-> "out", eol |-> "\n"] >>

StderrScript == << >>

\* a process that writes two lines to stdout and one to stderr
StdoutScript2 == << [text |-> "o1", eol |-> "\n"], [text |-> "o2", eol |-> "\r\n"] >>

StderrScript2 == << [text |-> "e1", eol |-> "\n"] >>

EOFLine == [text |-> "", eol |-> ""]

\* a readline() that returns the newest buffered line instead of the oldest
ReadlineNewest(stream) ==
  IF stream = <<>> THEN EOFLine ELSE stream[Len(stream)]

\* stream.readline(): the next raw line, '' at end of stream
Readline(stream) == IF stream = <<>> THEN EOFLine ELSE Head(stream)

\* line.rstrip("\n\r") of a raw line whose text has no trailing CR or LF
Rstrip(raw) == raw.text

NoFile == <<>>

NoDir == <<>>

Timestamp == "20260101_000000"

\* the timestamp of the next second
NextSecond == "20260101_000001"

NoRun == <<>>

NoExit == <<>>

VARIABLES
  cfg,             \* Config.nodes: per node stop_on_error, no_logs
  remote,          \* per node, what the process of a command writes to its
                   \* stdout and stderr: raw lines as readline() returns them
  clock,           \* datetime.now() as strftime("%Y%m%d_%H%M%S") formats it
  first,           \* the log directory and NodeState objects of an earlier
                   \* run_all call, NoRun if there was none
  enable_logging,  \* Executor.enable_logging
  run,             \* where Executor.run_all is
  log_dir,         \* Executor._log_dir
  states,          \* Executor.states: node name -> NodeState
  files,           \* the file system under the log root: path -> text lines
  sink,            \* per node, the calls of on_output / on_status, in order
  task,            \* per node, the position and locals of its _run_node task
  attempts,        \* per node, the commands handed to conn.create_process
  results,         \* per node, how each _run_command call ended: "True",
                   \* "Exit" (False, non-zero exit), "Error" (False, caught
                   \* asyncssh.Error), or the class of the exception it raised
  quit,            \* Dashboard.action_quit: "no", "cancelled", "plain"
  exitCode,        \* <<code>> once the process has exited, NoExit before
  reported         \* the failed node names printed at exit

vars == <<cfg, remote, clock, first, enable_logging, run, log_dir, states, files, sink, task,
          attempts, results, quit, exitCode, reported>>

\* ---------------------------------------------------------- NodeState
NewNodeState(log_file) ==
  [status |-> PENDING,
   current_command |-> <<"">>,
   current_command_index |-> 0,
   output_lines |-> <<>>,
   error_message |-> <<"">>,
   log_file |-> log_file]

\* a _run_node task: pc is the await it is suspended at, i the loop index
\* (1-based), conn how asyncssh.connect ended, out/err what the process has
\* still to write, outEOF/errEOF whether that reader has finished, pend what
\* leaves the session context while it is closed (a return or an exception)
IdleTask ==
  [pc |-> "idle", i |-> 0, conn |-> "none", out |-> <<>>, err |-> <<>>,
   outEOF |-> FALSE, errEOF |-> FALSE, pend |-> "none"]

\* the mutable world an emission threads through
World ==
  [states |-> states, files |-> files, sink |-> sink, task |-> task,
   attempts |-> attempts, results |-> results, run |-> run]

Commit(w) ==
  /\ states' = w.states
  /\ files' = w.files
  /\ sink' = w.sink
  /\ task' = w.task
  /\ attempts' = w.attempts
  /\ results' = w.results
  /\ run' = w.run

\* open(path, "a"); f.write(line + "\n"): every segment of the line becomes
\* a text line of the file
AppendFile(fs, path, line) ==
  IF path \in DOMAIN fs
    THEN [fs EXCEPT ![path] = @ \o line]
    ELSE fs @@ (path :> line)

FileLines(fs, path) == IF path \in DOMAIN fs THEN fs[path] ELSE <<>>

\* a call of on_output, with what the callback can observe of the node when
\* it is called: how many lines output_lines and the log file hold
OutputEvent(w, n, line) ==
  [kind |-> "output", line |-> line,
   history |-> IF n \in DOMAIN w.states
                 THEN Len(w.states[n].output_lines) ELSE 0,
   log |-> IF n \in DOMAIN w.states /\ w.states[n].log_file # NoFile
             THEN Len(FileLines(w.files, w.states[n].log_file)) ELSE 0]

\* a call of on_status, with the error message the callback can read from
\* the node's state when it is called
StatusEvent(w, n, status) ==
  [kind |-> "status", status |-> status,
   message |-> IF n \in DOMAIN w.states
                 THEN w.states[n].error_message ELSE <<"">>]

\* _emit_output that calls on_output before it records the line
EmitOutputSinkFirst(w, n, line) ==
  LET w0 == [w EXCEPT !.sink[n] = Append(@, OutputEvent(w, n, line))]
  IN IF n \in DOMAIN w0.states
       THEN [w0 EXCEPT
               !.states[n].output_lines = Append(@, line),
               !.files = IF w0.states[n].log_file # NoFile
                           THEN AppendFile(@, w0.states[n].log_file, line)
                           ELSE @]
       ELSE w0

\* Executor._emit_output
EmitOutput(w, n, line) ==
  LET w1 == IF n \in DOMAIN w.states
              THEN [w EXCEPT
                      !.states[n].output_lines = Append(@, line),
                      !.files = IF w.states[n].log_file # NoFile
                                  THEN AppendFile(@, w.states[n].log_file, line)
                                  ELSE @]
              ELSE w
  IN [w1 EXCEPT !.sink[n] = Append(@, OutputEvent(w1, n, line))]

\* Executor._emit_status
EmitStatus(w, n, status) ==
  LET w1 == IF n \in DOMAIN w.states
              THEN [w EXCEPT !.states[n].status = status]
              ELSE w
  IN [w1 EXCEPT !.sink[n] = Append(@, StatusEvent(w1, n, status))]

Init ==
  /\ cfg \in NodeConfigs
  /\ remote = [n \in Nodes |-> [out |-> StdoutScript, err |-> StderrScript]]
  /\ clock = Timestamp
  /\ first = NoRun
  /\ enable_logging \in BOOLEAN
  /\ enable_logging \/ \A n \in Nodes : ~cfg[n].no_logs
  /\ run = "init"
  /\ log_dir = NoDir
  /\ states = <<>>
  /\ files = <<>>
  /\ sink = [n \in Nodes |-> <<>>]
  /\ task = [n \in Nodes |-> IdleTask]
  /\ attempts = [n \in Nodes |-> <<>>]
  /\ results = [n \in Nodes |-> <<>>]
  /\ quit = "no"
  /\ exitCode = NoExit
  /\ reported = <<>>

Alive == exitCode = NoExit

\* the node tasks are scheduled while run_all awaits asyncio.gather
TasksRun == Alive /\ run = "gathering"

\* ------------------------------------------------------------ run_all
\* Executor._setup_logging: the run's log directory
SetupLogging ==
  IF enable_logging /\ ~(\A n \in Nodes : cfg[n].no_logs)
    THEN <<"logs", clock>>
    ELSE NoDir

\* a choice of log file that does not depend on the node
LogFileOfShared(dir, n) ==
  IF dir # NoDir /\ ~cfg[n].no_logs THEN Append(dir, "run.log") ELSE NoFile

\* run_all's choice of a node's log file
LogFileOf(dir, n) ==
  IF dir # NoDir /\ ~cfg[n].no_logs THEN Append(dir, n \o ".log") ELSE NoFile

\* run_all that creates a node's NodeState only when it starts that node's
\* driver: at its await only the first node has one
RunAllLazy ==
  /\ Alive
  /\ run = "init"
  /\ log_dir' = SetupLogging
  /\ files' = IF log_dir' # NoDir
                THEN files @@ (Append(log_dir', "config.yaml") :> <<"config">>)
                ELSE files
  /\ states' = [n \in {NodeOrder[1]} |-> NewNodeState(LogFileOf(log_dir', n))]
  /\ task' = [n \in Nodes |-> [IdleTask EXCEPT !.pc = "pending"]]
  /\ run' = "gathering"
  /\ UNCHANGED <<cfg, remote, clock, first, enable_logging, sink, attempts,
                 results, quit, exitCode, reported>>

\* run_all up to its await: logging set up, one NodeState per node, one task
\* per node
RunAll ==
  /\ Alive
  /\ run = "init"
  /\ log_dir' = SetupLogging
  /\ files' = IF log_dir' # NoDir
                THEN files @@ (Append(log_dir', "config.yaml") :> <<"config">>)
                ELSE files
  /\ states' = [n \in Nodes |-> NewNodeState(LogFileOf(log_dir', n))]
  /\ task' = [n \in Nodes |-> [IdleTask EXCEPT !.pc = "pending"]]
  /\ run' = "gathering"
  /\ UNCHANGED <<cfg, remote, clock, first, enable_logging, sink, attempts, results, quit,
                 exitCode, reported>>

\* asyncio.gather without return_exceptions: the first exception of a task is
\* raised out of run_all
GatherPropagates(r) == "raised"

\* asyncio.gather(*tasks, return_exceptions=True): an exception that ends a
\* task is kept as that task's result; run_all goes on waiting
GatherOnTaskException(r) == r

\* the task of node n ends with an exception nobody caught
TaskRaised(w, n) ==
  [w EXCEPT !.task[n] = [IdleTask EXCEPT !.pc = "raised", !.conn = w.task[n].conn],
            !.run = GatherOnTaskException(w.run)]

TaskDone(w, n) ==
  [w EXCEPT !.task[n] = [IdleTask EXCEPT !.pc = "done", !.conn = w.task[n].conn]]

\* ------------------------------------------------------------ _run_node
\* the command line handed to the transport: "cd <work_dir> && <cmd>" when a
\* working directory is configured
ActualCmd(n, cmd) ==
  IF WorkDirOf(n) # ""
    THEN Join(<<"cd " \o WorkDirOf(n)>>, " && ", cmd)
    ELSE cmd

\* StartCommand that does not await the runner: command i + 1, if there is
\* one, is handed to the transport together with command i
StartCommandEager(w, n, i) ==
  LET cmd == CommandsOf(n)[i]
      w1 == [w EXCEPT !.states[n].current_command = cmd,
                      !.states[n].current_command_index = i - 1]
      w2 == EmitOutput(w1, n, Cat("$ ", cmd))
      started == IF i < Len(CommandsOf(n))
                   THEN <<ActualCmd(n, cmd), ActualCmd(n, CommandsOf(n)[i + 1])>>
                   ELSE <<ActualCmd(n, cmd)>>
  IN [w2 EXCEPT !.attempts[n] = @ \o started,
                !.task[n].pc = "launch",
                !.task[n].i = i,
                !.task[n].out = <<>>, !.task[n].err = <<>>,
                !.task[n].outEOF = FALSE, !.task[n].errEOF = FALSE,
                !.task[n].pend = "none"]

\* the loop body up to the await in _run_command: command i is announced and
\* handed to conn.create_process
StartCommand(w, n, i) ==
  LET cmd == CommandsOf(n)[i]
      w1 == [w EXCEPT !.states[n].current_command = cmd,
                      !.states[n].current_command_index = i - 1]
      w2 == EmitOutput(w1, n, Cat("$ ", cmd))
      actual_cmd == ActualCmd(n, cmd)
  IN [w2 EXCEPT !.attempts[n] = Append(@, actual_cmd),
                !.task[n].pc = "launch",
                !.task[n].i = i,
                !.task[n].out = <<>>, !.task[n].err = <<>>,
                !.task[n].outEOF = FALSE, !.task[n].errEOF = FALSE,
                !.task[n].pend = "none"]

\* LeaveSession in which closing the session raises asyncssh.Error when the
\* block was left by a return
LeaveSessionRaises(w, n, what) ==
  [w EXCEPT !.task[n].pc = "connClose",
            !.task[n].pend = IF what = "return" THEN "ssh" ELSE what,
            !.task[n].out = <<>>, !.task[n].err = <<>>,
            !.task[n].outEOF = FALSE, !.task[n].errEOF = FALSE]

\* leaving "async with ... as conn": the session is closed, then `what`
\* (a return or a raised exception) takes effect
LeaveSession(w, n, what) ==
  [w EXCEPT !.task[n].pc = "connClose", !.task[n].pend = what,
            !.task[n].out = <<>>, !.task[n].err = <<>>,
            !.task[n].outEOF = FALSE, !.task[n].errEOF = FALSE]

\* RunnerReturned without the "return" after a stopping failure: the loop
\* goes on after FAILED
RunnerReturnedNoReturn(w, n, success) ==
  LET i == w.task[n].i
      wf == IF ~success /\ cfg[n].stop_on_error
              THEN [EmitStatus(w, n, FAILED) EXCEPT
                      !.states[n].error_message =
                        Cat("Command failed: ", CommandsOf(n)[i])]
              ELSE w
  IN IF i < Len(CommandsOf(n))
       THEN StartCommand(wf, n, i + 1)
       ELSE LET w1 == EmitOutput(wf, n, <<"">>)
                w2 == EmitOutput(w1, n, <<"All commands completed">>)
                w3 == EmitStatus(w2, n, SUCCESS)
            IN LeaveSession(w3, n, "return")

\* RunnerReturned with the error message naming the command after the failed
\* one (an off-by-one in the loop variable)
RunnerReturnedWrongCmd(w, n, success) ==
  LET i == w.task[n].i
  IN IF ~success /\ cfg[n].stop_on_error
       THEN LET w1 == EmitStatus(w, n, FAILED)
                w2 == [w1 EXCEPT !.states[n].error_message =
                                   Cat("Command failed: ", Command(i + 1))]
            IN LeaveSession(w2, n, "return")
       ELSE IF i < Len(CommandsOf(n))
         THEN StartCommand(w, n, i + 1)
         ELSE LET w1 == EmitOutput(w, n, <<"">>)
                  w2 == EmitOutput(w1, n, <<"All commands completed">>)
                  w3 == EmitStatus(w2, n, SUCCESS)
              IN LeaveSession(w3, n, "return")

\* _run_node after "success = await self._run_command(...)"
RunnerReturned(w, n, success) ==
  LET i == w.task[n].i
  IN IF ~success /\ cfg[n].stop_on_error
       THEN LET w1 == EmitStatus(w, n, FAILED)
                w2 == [w1 EXCEPT !.states[n].error_message =
                                   Cat("Command failed: ", CommandsOf(n)[i])]
            IN LeaveSession(w2, n, "return")
       ELSE IF i < Len(CommandsOf(n))
         THEN StartCommand(w, n, i + 1)
         ELSE LET w1 == EmitOutput(w, n, <<"">>)
                  w2 == EmitOutput(w1, n, <<"All commands completed">>)
                  w3 == EmitStatus(w2, n, SUCCESS)
              IN LeaveSession(w3, n, "return")

\* the except clauses of _run_node
HandleNodeExc(w, n, e) ==
  IF e = "ssh"
    THEN LET w1 == EmitStatus(w, n, FAILED)
             w2 == [w1 EXCEPT !.states[n].error_message =
                                Cat("SSH error: ", StrOf(e))]
         IN TaskDone(EmitOutput(w2, n, Cat("ERROR: ", StrOf(e))), n)
    ELSE IF e = "os"
      THEN LET w1 == EmitStatus(w, n, FAILED)
               w2 == [w1 EXCEPT !.states[n].error_message =
                                  Cat("Connection error: ", StrOf(e))]
           IN TaskDone(EmitOutput(w2, n, Cat("ERROR: ", StrOf(e))), n)
      ELSE TaskRaised(w, n)

\* StartNode that reports CONNECTING only once the connection attempt is
\* over: it reaches the await without having emitted anything
StartNodeUnannounced(n) ==
  /\ TasksRun
  /\ task[n].pc = "pending"
  /\ Commit([World EXCEPT !.task[n].pc = "connect"])
  /\ UNCHANGED <<cfg, remote, clock, first, enable_logging, log_dir, quit,
                 exitCode, reported>>

\* the task's first step: up to "await asyncssh.connect(...)"
StartNode(n) ==
  /\ TasksRun
  /\ task[n].pc = "pending"
  /\ LET w1 == EmitStatus(World, n, CONNECTING)
         w2 == EmitOutput(w1, n, <<"Connecting to " \o n \o "...">>)
     IN Commit([w2 EXCEPT !.task[n].pc = "connect"])
  /\ UNCHANGED <<cfg, remote, clock, first, enable_logging, log_dir, quit, exitCode, reported>>

\* the session is established: up to the await in the first _run_command
ConnectOk(n) ==
  /\ TasksRun
  /\ task[n].pc = "connect"
  /\ LET w0 == [World EXCEPT !.task[n].conn = "ok"]
         w1 == EmitStatus(w0, n, RUNNING)
         w2 == EmitOutput(w1, n, <<"Connected successfully">>)
         w3 == IF WorkDirOf(n) # ""
                 THEN EmitOutput(w2, n, <<"Working directory: " \o WorkDirOf(n)>>)
                 ELSE w2
         w4 == EmitOutput(w3, n, <<"">>)
     IN Commit(StartCommand(w4, n, 1))
  /\ UNCHANGED <<cfg, remote, clock, first, enable_logging, log_dir, quit, exitCode, reported>>

\* asyncssh.connect raises an exception of class e
ConnectFail(n, e) ==
  /\ TasksRun
  /\ task[n].pc = "connect"
  /\ Commit(HandleNodeExc([World EXCEPT !.task[n].conn = e], n, e))
  /\ UNCHANGED <<cfg, remote, clock, first, enable_logging, log_dir, quit, exitCode, reported>>

\* the session has been closed: the pending return or exception takes effect
ConnClosed(n) ==
  /\ TasksRun
  /\ task[n].pc = "connClose"
  /\ IF task[n].pend = "return"
       THEN Commit(TaskDone(World, n))
       ELSE Commit(HandleNodeExc(World, n, task[n].pend))
  /\ UNCHANGED <<cfg, remote, clock, first, enable_logging, log_dir, quit, exitCode, reported>>

\* --------------------------------------------------------- _run_command
\* the "except asyncssh.Error" clause of _run_command, then back in _run_node
CommandError(w, n, e) ==
  LET w1 == EmitOutput(w, n, Cat("Command error: ", StrOf(e)))
  IN RunnerReturned([w1 EXCEPT !.results[n] = Append(@, "Error")], n, FALSE)

\* an exception of class e leaves _run_command's "async with" block or its
\* create_process call
RunCommandExc(w, n, e) ==
  IF e = "ssh"
    THEN CommandError(w, n, e)
    ELSE LeaveSession([w EXCEPT !.results[n] = Append(@, e)], n, e)

\* conn.create_process returned: both readers start
LaunchOk(n) ==
  /\ TasksRun
  /\ task[n].pc = "launch"
  /\ Commit([World EXCEPT !.task[n].pc = "stream",
                          !.task[n].out = remote[n].out,
                          !.task[n].err = remote[n].err])
  /\ UNCHANGED <<cfg, remote, clock, first, enable_logging, log_dir, quit, exitCode, reported>>

\* asyncio.gather of the two readers returns when both have seen end of stream;
\* then "await proc.wait()"
AfterRead(w, n) ==
  IF w.task[n].outEOF /\ w.task[n].errEOF
    THEN [w EXCEPT !.task[n].pc = "wait"]
    ELSE w

\* one turn of read_stream(proc.stdout)
ReadStdout(n) ==
  /\ TasksRun
  /\ task[n].pc = "stream"
  /\ ~task[n].outEOF
  /\ LET line == Readline(task[n].out)
     IN IF line = EOFLine
          THEN Commit(AfterRead([World EXCEPT !.task[n].outEOF = TRUE], n))
          ELSE Commit(EmitOutput([World EXCEPT !.task[n].out = Tail(@)], n,
                                 Cat("", <<Rstrip(line)>>)))
  /\ UNCHANGED <<cfg, remote, clock, first, enable_logging, log_dir, quit, exitCode, reported>>

\* one turn of read_stream(proc.stderr, is_stderr=True)
ReadStderr(n) ==
  /\ TasksRun
  /\ task[n].pc = "stream"
  /\ ~task[n].errEOF
  /\ LET line == Readline(task[n].err)
     IN IF line = EOFLine
          THEN Commit(AfterRead([World EXCEPT !.task[n].errEOF = TRUE], n))
          ELSE Commit(EmitOutput([World EXCEPT !.task[n].err = Tail(@)], n,
                                 Cat("STDERR: ", <<Rstrip(line)>>)))
  /\ UNCHANGED <<cfg, remote, clock, first, enable_logging, log_dir, quit, exitCode, reported>>

\* proc.wait() returned with exit status code: the process context is left
\* and _run_command returns, True for status 0, False after one more output
\* line otherwise
ProcExit(n, code) ==
  /\ TasksRun
  /\ task[n].pc = "wait"
  /\ LET w1 == IF code # 0
                 THEN EmitOutput(World, n,
                        <<"Command exited with status " \o ToString(code)>>)
                 ELSE World
         w2 == [w1 EXCEPT !.results[n] =
                            Append(@, IF code # 0 THEN "Exit" ELSE "True")]
     IN Commit(RunnerReturned(w2, n, code = 0))
  /\ UNCHANGED <<cfg, remote, clock, first, enable_logging, log_dir, quit, exitCode, reported>>

\* the transport raises an exception of class e while the command is being
\* launched (create_process), streamed (readline) or waited for (proc.wait)
CommandFault(n, e) ==
  /\ TasksRun
  /\ task[n].pc \in {"launch", "stream", "wait"}
  /\ Commit(RunCommandExc(World, n, e))
  /\ UNCHANGED <<cfg, remote, clock, first, enable_logging, log_dir, quit, exitCode, reported>>

\* ------------------------------------------------------------- callers
AllTasksEnded == \A n \in Nodes : task[n].pc \in {"done", "raised"}

\* asyncio.gather has every task's result: run_all returns self.states
RunAllReturn ==
  /\ TasksRun
  /\ AllTasksEnded
  /\ run' = "returned"
  /\ UNCHANGED <<cfg, remote, clock, first, enable_logging, log_dir, states, files, sink, task,
                 attempts, results, quit, exitCode, reported>>

\* the failed node names, in the order of the states dict
FailedNodes(sts) ==
  SelectSeq(NodeOrder, LAMBDA n : n \in DOMAIN sts /\ sts[n].status = FAILED)

\* "return 1" if any node failed, else "return 0"
ExitCodeOf(failed) == IF failed # <<>> THEN <<1>> ELSE <<0>>

\* _run_headless after asyncio.run(executor.run_all())
HeadlessExit ==
  /\ Alive
  /\ quit = "no"
  /\ run = "returned"
  /\ reported' = FailedNodes(states)
  /\ exitCode' = ExitCodeOf(reported')
  /\ UNCHANGED <<cfg, remote, clock, first, enable_logging, run, log_dir, states, files, sink, task,
                 attempts, results, quit>>

\* Dashboard.action_quit.  The executor runs in a thread worker
\* (run_worker(..., thread=True)): Worker.cancel marks the worker cancelled
\* and does not interrupt the thread, so the node tasks keep running.
Quit ==
  /\ Alive
  /\ quit = "no"
  /\ run # "init"
  /\ quit' = IF run = "gathering" THEN "cancelled" ELSE "plain"
  /\ UNCHANGED <<cfg, remote, clock, first, enable_logging, run, log_dir, states, files, sink, task,
                 attempts, results, exitCode, reported>>

\* main() after app.run() has returned: the event loop of the app is closed
\* once its default executor's thread has ended
DashboardExit ==
  /\ Alive
  /\ quit # "no"
  /\ run = "returned"
  /\ reported' = FailedNodes(states)
  /\ exitCode' = ExitCodeOf(reported')
  /\ UNCHANGED <<cfg, remote, clock, first, enable_logging, run, log_dir, states, files, sink, task,
                 attempts, results, quit>>

\* the steps the task of node n can take
NodeStep(n) ==
  \/ StartNode(n)
  \/ ConnectOk(n)
  \/ \E e \in ExcClasses : ConnectFail(n, e)
  \/ LaunchOk(n)
  \/ ReadStdout(n)
  \/ ReadStderr(n)
  \/ \E code \in ExitStatuses : ProcExit(n, code)
  \/ \E e \in ExcClasses : CommandFault(n, e)
  \/ ConnClosed(n)

Next ==
  \/ RunAll
  \/ \E n \in Nodes : NodeStep(n)
  \/ RunAllReturn
  \/ HeadlessExit
  \/ Quit
  \/ DashboardExit

Spec == Init /\ [][Next]_vars

\* a run without logs in which the commands of n1, which stops on errors,
\* write to both streams
InitStreams ==
  /\ cfg \in NodeConfigs
  /\ cfg["n1"].stop_on_error
  /\ \A n \in Nodes : ~cfg[n].no_logs
  /\ remote = [n \in Nodes |->
                 IF n = "n1"
                   THEN [out |-> StdoutScript2, err |-> StderrScript2]
                   ELSE [out |-> StdoutScript, err |-> StderrScript]]
  /\ clock = Timestamp
  /\ first = NoRun
  /\ enable_logging = FALSE
  /\ run = "init"
  /\ log_dir = NoDir
  /\ states = <<>>
  /\ files = <<>>
  /\ sink = [n \in Nodes |-> <<>>]
  /\ task = [n \in Nodes |-> IdleTask]
  /\ attempts = [n \in Nodes |-> <<>>]
  /\ results = [n \in Nodes |-> <<>>]
  /\ quit = "no"
  /\ exitCode = NoExit
  /\ reported = <<>>

SpecStreams == InitStreams /\ [][Next]_vars

\* ------------------------------------------------------------ progress
\* the steps of the task of node n when the transport answers every request:
\* a connection attempt succeeds or fails, every stream of a launched
\* command reaches its end and the exit status arrives
LiveStep(n) ==
  \/ StartNode(n)
  \/ ConnectOk(n)
  \/ \E e \in ExcClasses : ConnectFail(n, e)
  \/ LaunchOk(n)
  \/ ReadStdout(n)
  \/ ReadStderr(n)
  \/ \E code \in ExitStatuses : ProcExit(n, code)
  \/ ConnClosed(n)

NextLive ==
  \/ RunAll
  \/ \E n \in Nodes : LiveStep(n)
  \/ RunAllReturn
  \/ HeadlessExit
  \/ Quit
  \/ DashboardExit

\* the task of node n is ready to run: LiveStep(n) is enabled
TaskCanRun(n) ==
  /\ TasksRun
  /\ task[n].pc \in {"pending", "connect", "launch", "stream", "wait", "connClose"}

\* run_all is called, gather returns once every task has ended, and the
\* event loop runs every task that stays ready (weak fairness of LiveStep(n),
\* written out with TaskCanRun(n) for ENABLED <<LiveStep(n)>>_vars)
Fairness ==
  /\ WF_vars(RunAll)
  /\ WF_vars(RunAllReturn)
  /\ \A n \in Nodes :
       []<>(~TaskCanRun(n)) \/ []<><<LiveStep(n)>>_vars

SpecLive == Init /\ [][NextLive]_vars /\ Fairness

\* ------------------------------------------------------------ two runs
\* a run with logs of nodes that stop on errors
InitTwoRuns ==
  /\ cfg = [n \in Nodes |-> [stop_on_error |-> TRUE, no_logs |-> FALSE]]
  /\ remote = [n \in Nodes |-> [out |-> StdoutScript, err |-> StderrScript]]
  /\ clock = Timestamp
  /\ first = NoRun
  /\ enable_logging = TRUE
  /\ run = "init"
  /\ log_dir = NoDir
  /\ states = <<>>
  /\ files = <<>>
  /\ sink = [n \in Nodes |-> <<>>]
  /\ task = [n \in Nodes |-> IdleTask]
  /\ attempts = [n \in Nodes |-> <<>>]
  /\ results = [n \in Nodes |-> <<>>]
  /\ quit = "no"
  /\ exitCode = NoExit
  /\ reported = <<>>

\* the wall clock reaches the next second
Tick ==
  /\ Alive
  /\ clock = Timestamp
  /\ clock' = NextSecond
  /\ UNCHANGED <<cfg, remote, first, enable_logging, run, log_dir, states,
                 files, sink, task, attempts, results, quit, exitCode, reported>>

\* run_all is called again after a run in which every node reached SUCCESS:
\* run_all up to its await, as in RunAll; what the callbacks and the
\* transport saw is observed per run
RunAgain ==
  /\ Alive
  /\ quit = "no"
  /\ run = "returned"
  /\ first = NoRun
  /\ \A n \in Nodes : states[n].status = SUCCESS
  /\ first' = [log_dir |-> log_dir, states |-> states]
  /\ log_dir' = SetupLogging
  /\ files' = IF log_dir' # NoDir
                THEN (Append(log_dir', "config.yaml") :> <<"config">>) @@ files
                ELSE files
  /\ states' = [n \in Nodes |-> NewNodeState(LogFileOf(log_dir', n))]
  /\ task' = [n \in Nodes |-> [IdleTask EXCEPT !.pc = "pending"]]
  /\ run' = "gathering"
  /\ sink' = [n \in Nodes |-> <<>>]
  /\ attempts' = [n \in Nodes |-> <<>>]
  /\ results' = [n \in Nodes |-> <<>>]
  /\ UNCHANGED <<cfg, remote, clock, enable_logging, quit, exitCode, reported>>

NextTwoRuns ==
  \/ Next
  \/ Tick
  \/ RunAgain

SpecTwoRuns == InitTwoRuns /\ [][NextTwoRuns]_vars

TypeOK ==
  /\ run \in {"init", "gathering", "returned", "raised"}
  /\ DOMAIN states \in {{}, Nodes}
  /\ \A n \in DOMAIN states : states[n].status \in NodeStatus
  /\ quit \in {"no", "cancelled", "plain"}

\* ================================================================ claims
Terminal == {SUCCESS, FAILED}

IsPrefix(s, t) == Len(s) <= Len(t) /\ SubSeq(t, 1, Len(s)) = s

\* the statuses delivered through on_status for node n, in order
Statuses(n) ==
  LET ev == SelectSeq(sink[n], LAMBDA e : e.kind = "status")
  IN [k \in 1..Len(ev) |-> ev[k].status]

\* the on_output calls for node n, in order
OutputEvents(n) == SelectSeq(sink[n], LAMBDA e : e.kind = "output")

OutputOf(n) == IF n \in DOMAIN states THEN states[n].output_lines ELSE <<>>

HasLine(n, line) == \E k \in 1..Len(OutputOf(n)) : OutputOf(n)[k] = line

Count(seq, v) == Cardinality({k \in 1..Len(seq) : seq[k] = v})

ValidPaths ==
  { <<PENDING, CONNECTING, RUNNING, SUCCESS>>,
    <<PENDING, CONNECTING, RUNNING, FAILED>>,
    <<PENDING, CONNECTING, FAILED>> }

\* C1: for every node the statuses delivered through on_status, after the
\* initial PENDING, form a prefix of PENDING CONNECTING RUNNING SUCCESS, of
\* PENDING CONNECTING RUNNING FAILED or of PENDING CONNECTING FAILED, and
\* NodeState.status is always the last status of that sequence: no transition
\* is skipped, delivered twice or follows a terminal status, also while and
\* after the session is closed.
C1_StatusPath ==
  \A n \in Nodes :
    LET seq == <<PENDING>> \o Statuses(n)
    IN /\ \E p \in ValidPaths : IsPrefix(seq, p)
       /\ n \in DOMAIN states => states[n].status = seq[Len(seq)]

\* n1 ran its last command, reported SUCCESS and its session has been closed
C1_Witness ==
  /\ task["n1"].pc = "done"
  /\ Statuses("n1") = <<CONNECTING, RUNNING, SUCCESS>>

\* the command index k (1-based) at which node n's runner first reported
\* failure (returned False), 0 if it has not
FirstFailure(n) ==
  IF \E k \in 1..Len(results[n]) : results[n][k] \in {"Exit", "Error"}
    THEN CHOOSE k \in 1..Len(results[n]) :
           /\ results[n][k] \in {"Exit", "Error"}
           /\ \A j \in 1..(k - 1) : results[n][j] = "True"
    ELSE 0

C3_TolerateFailures ==
  \A n \in Nodes :
    (~cfg[n].stop_on_error /\ task[n].conn = "ok") =>
      /\ states[n].status # FAILED
      /\ task[n].pc \in {"done", "raised"} =>
           /\ attempts[n] = [j \in 1..Len(CommandsOf(n)) |->
                               ActualCmd(n, CommandsOf(n)[j])]
           /\ states[n].status = SUCCESS
           /\ Count(OutputOf(n), <<"Command exited with status 2">>)
                = Count(results[n], "Exit")

\* C4: a node whose asyncssh.connect raised has no "Connected successfully"
\* line, never was RUNNING, started no command, is FAILED, has a non-empty
\* error message and an "ERROR: ..." line.
C4_ConnectFailure ==
  \A n \in Nodes :
    task[n].conn \in ExcClasses =>
      /\ ~HasLine(n, <<"Connected successfully">>)
      /\ \A k \in 1..Len(Statuses(n)) : Statuses(n)[k] # RUNNING
      /\ attempts[n] = <<>>
      /\ states[n].status = FAILED
      /\ states[n].error_message # <<"">>
      /\ HasLine(n, Cat("ERROR: ", StrOf(task[n].conn)))

\* C5: when run_all has returned every node's status is SUCCESS or FAILED.
C5_AllTerminalOnReturn ==
  run = "returned" => \A n \in Nodes : states[n].status \in Terminal

\* C6: run_all never raises, and whatever happened to the other tasks a task
\* that has not ended is still scheduled: a fault of one node's driver
\* neither aborts another driver nor propagates out of run_all.
C6_Isolation ==
  /\ run # "raised"
  /\ \A b \in Nodes :
       (run # "init" /\ task[b].pc \notin {"done", "raised"}) => TasksRun

\* run_all returned although a task ended with an exception nobody caught,
\* and the other node went through all its commands to SUCCESS
C6_Witness ==
  /\ run = "returned"
  /\ \E a, b \in Nodes :
       /\ a # b
       /\ task[a].pc = "raised"
       /\ states[b].status = SUCCESS
       /\ Len(results[b]) = Len(CommandsOf(b))

\* the log file of node n, NoFile if it has none
LogFileOfNode(n) == IF n \in DOMAIN states THEN states[n].log_file ELSE NoFile

\* the number of text lines the first k output lines of node n take in a file
TextLines(n, k) ==
  LET RECURSIVE Sum(_)
      Sum(j) == IF j = 0 THEN 0 ELSE Sum(j - 1) + Len(OutputOf(n)[j])
  IN Sum(k)

\* C7: for every node with a log file, the text lines of the file are the
\* node's output_lines, in order, one text line per output line.
C7_LogEqualsHistory ==
  \A n \in Nodes :
    LogFileOfNode(n) # NoFile =>
      LET lines == FileLines(files, LogFileOfNode(n))
      IN /\ Len(lines) = Len(OutputOf(n))
         /\ \A k \in 1..Len(lines) : OutputOf(n)[k] = <<lines[k]>>

\* C8 as claimed: when on_output is called for the k-th line of a node, the
\* line is not yet in output_lines (which holds k - 1 lines) nor in the log
\* file.
C8_SinkFirst ==
  \A n \in Nodes :
    \A k \in 1..Len(OutputEvents(n)) :
      /\ OutputEvents(n)[k].history = k - 1
      /\ LogFileOfNode(n) # NoFile =>
           OutputEvents(n)[k].log = TextLines(n, k - 1)

\* C8 as amended: every output line is first appended to output_lines, then
\* (if a log file is assigned) written to the log file, and only then
\* delivered to on_output: when on_output is called for the k-th line of a
\* node, output_lines already holds k lines, the k-th being that line, and
\* the log file already holds the text of all k lines.
C8_SinkLast ==
  \A n \in Nodes :
    \A k \in 1..Len(OutputEvents(n)) :
      /\ OutputEvents(n)[k].history = k
      /\ OutputOf(n)[k] = OutputEvents(n)[k].line
      /\ LogFileOfNode(n) # NoFile =>
           OutputEvents(n)[k].log = TextLines(n, k)

\* n1 writes a log and on_output has been called for the two-line "$ c2..."
\* announcement of its second command
C8_Witness ==
  /\ LogFileOfNode("n1") # NoFile
  /\ \E k \in 1..Len(OutputEvents("n1")) :
       OutputEvents("n1")[k].line = Cat("$ ", Command(2))

\* C9: once the process has exited, the exit code is 0 exactly if every node
\* is SUCCESS and 1 exactly if some node is FAILED, and the names reported as
\* failed are exactly the nodes whose status is FAILED.
C9_ExitCode ==
  exitCode # NoExit =>
    /\ exitCode = <<0>> <=> \A n \in Nodes : states[n].status = SUCCESS
    /\ exitCode = <<1>> <=> \E n \in Nodes : states[n].status = FAILED
    /\ {reported[k] : k \in 1..Len(reported)}
         = {n \in Nodes : states[n].status = FAILED}

\* C10: once the run has been cancelled, a node that is not in a terminal
\* status is not given one: no step after the cancellation takes a node from
\* PENDING, CONNECTING or RUNNING to SUCCESS or FAILED.
C10_CancelStops ==
  [][\A n \in Nodes :
       (quit = "cancelled" /\ states[n].status \notin Terminal)
         => states'[n].status \notin Terminal]_vars

\* a command of node n has been handed to the transport and its runner has
\* not returned
InCommand(n) == task[n].pc \in {"launch", "stream", "wait"}

\* C11: within each node the commands handed to the transport are the
\* configured ones in configured order, and a command is handed over only
\* when the runner of every earlier one has ended: the commands started
\* exceed the runner calls that ended by one while a command is active and by
\* none otherwise, whatever the other node's driver is doing.
C11_Sequential ==
  \A n \in Nodes :
    /\ Len(attempts[n]) <= Len(CommandsOf(n))
    /\ \A j \in 1..Len(attempts[n]) :
         attempts[n][j] = ActualCmd(n, CommandsOf(n)[j])
    /\ Len(attempts[n]) = Len(results[n]) + (IF InCommand(n) THEN 1 ELSE 0)

\* n1 streams its second command, after the runner of its first one returned
\* False, while n2 is in the middle of its own command
C11_Witness ==
  /\ task["n1"].pc = "stream"
  /\ task["n1"].i = 2
  /\ results["n1"] \in {<<"Exit">>, <<"Error">>}
  /\ task["n2"].pc = "stream"

\* the position in node n's output of the announcement of its j-th command
AnnouncePos(n, j) ==
  CHOOSE k \in 1..Len(OutputOf(n)) : OutputOf(n)[k] = Cat("$ ", CommandsOf(n)[j])

\* the output lines of node n from the announcement of its j-th command to the
\* announcement of the next one (to the end for the last command started)
Segment(n, j) ==
  SubSeq(OutputOf(n), AnnouncePos(n, j) + 1,
         IF j < Len(attempts[n]) THEN AnnouncePos(n, j + 1) - 1
                                 ELSE Len(OutputOf(n)))

\* the output lines the stdout (stderr) lines of a command of node n become
StdoutTexts(n) == [k \in 1..Len(remote[n].out) |-> <<remote[n].out[k].text>>]

StderrTexts(n) ==
  [k \in 1..Len(remote[n].err) |-> <<"STDERR: " \o remote[n].err[k].text>>]

\* the lines of seq that occur in texts, in the order of seq
Only(seq, texts) ==
  SelectSeq(seq, LAMBDA l : \E k \in 1..Len(texts) : texts[k] = l)

\* C12: for every command of every node, the stdout lines in the node's
\* output are the lines the process wrote to stdout, in that order, each
\* once, and likewise the stderr lines with the "STDERR: " marker: all of
\* them once the runner has returned after the end of both streams, the ones
\* read so far while the command is streamed, a prefix of them when a
\* transport fault ended the command.
C12_StreamOrder ==
  \A n \in Nodes :
    \A j \in 1..Len(attempts[n]) :
      LET so == Only(Segment(n, j), StdoutTexts(n))
          se == Only(Segment(n, j), StderrTexts(n))
      IN IF j <= Len(results[n])
           THEN IF results[n][j] \in {"True", "Exit"}
                  THEN so = StdoutTexts(n) /\ se = StderrTexts(n)
                  ELSE IsPrefix(so, StdoutTexts(n)) /\ IsPrefix(se, StderrTexts(n))
           ELSE IF task[n].pc = "launch"
                  THEN so = <<>> /\ se = <<>>
                  ELSE /\ so = SubSeq(StdoutTexts(n), 1,
                                      Len(remote[n].out) - Len(task[n].out))
                       /\ se = SubSeq(StderrTexts(n), 1,
                                      Len(remote[n].err) - Len(task[n].err))

\* the first command of n1 has ended with exit status 0 and its stderr line
\* was emitted between its two stdout lines
C12_Witness ==
  /\ Len(results["n1"]) >= 1
  /\ results["n1"][1] = "True"
  /\ SubSeq(Segment("n1", 1), 1, 3) = <<<<"o1">>, <<"STDERR: e1">>, <<"o2">>>>

TaskEnded(n) == task[n].pc \in {"done", "raised"}

\* the j-th command of node n ended by an exception of the transport that was
\* raised before the end of its stdout was read: while the command was
\* launched or streamed
FaultedEarly(n, j) ==
  /\ results[n][j] \in {"Error", "os", "other"}
  /\ Only(Segment(n, j), StdoutTexts(n)) # StdoutTexts(n)

\* some output line of node n reports an exception of the transport
FaultReported(n) ==
  \E e \in ExcClasses :
    HasLine(n, Cat("Command error: ", StrOf(e))) \/ HasLine(n, Cat("ERROR: ", StrOf(e)))

\* C13: a node whose task has ended and one of whose commands was ended by
\* an exception of the transport while it was launched or streamed has an
\* output line reporting the fault and is FAILED.
C13_FaultMarksFailed ==
  \A n \in Nodes :
    (TaskEnded(n) /\ \E j \in 1..Len(results[n]) : FaultedEarly(n, j)) =>
      /\ FaultReported(n)
      /\ states[n].status = FAILED

\* the number of "Command error: ..." lines in node n's output
CommandErrorLines(n) ==
  Cardinality({k \in 1..Len(OutputOf(n)) :
                 \E e \in ExcClasses : OutputOf(n)[k] = Cat("Command error: ", StrOf(e))})

\* C14: every call of _run_command that has ended returned True or False,
\* none ended by raising to _run_node, and the node's output has one
\* "Command error: ..." line for every call a fault of the transport ended.
C14_RunnerNeverRaises ==
  \A n \in Nodes :
    /\ \A j \in 1..Len(results[n]) : results[n][j] \in {"True", "Exit", "Error"}
    /\ CommandErrorLines(n) =
         Cardinality({j \in 1..Len(results[n]) : results[n][j] \notin {"True", "Exit"}})

\* the text lines a sequence of output lines takes in a file
Flatten(lines) ==
  LET RECURSIVE Flat(_)
      Flat(k) == IF k = 0 THEN <<>> ELSE Flat(k - 1) \o lines[k]
  IN Flat(Len(lines))

\* C15: in a second run after a fully successful one, the log directory is
\* not the first run's, every node's log file holds the text of the second
\* run's output lines and nothing else, and every node's output history is
\* exactly what the second run emitted for it, whatever the clock read when
\* each run started.
C15_RunsIndependent ==
  first # NoRun =>
    /\ log_dir # first.log_dir
    /\ \A n \in Nodes :
         /\ states[n].log_file # NoFile =>
              FileLines(files, states[n].log_file) = Flatten(states[n].output_lines)
         /\ states[n].output_lines =
              [k \in 1..Len(OutputEvents(n)) |-> OutputEvents(n)[k].line]

\* an output line that reports a failure
IsFailureLine(line) ==
  \/ \E e \in ExcClasses :
       line \in {Cat("ERROR: ", StrOf(e)), Cat("Command error: ", StrOf(e))}
  \/ \E code \in ExitStatuses \ {0} :
       line = <<"Command exited with status " \o ToString(code)>>

FailureLines(n) ==
  Cardinality({k \in 1..Len(OutputOf(n)) : IsFailureLine(OutputOf(n)[k])})

\* the failures of node n: a failed connection attempt and every command
\* that exited non-zero or was ended by a fault of the transport
Failures(n) ==
  (IF task[n].conn \in ExcClasses THEN 1 ELSE 0)
    + Cardinality({j \in 1..Len(results[n]) : results[n][j] # "True"})

\* C16: once the task of a node has ended, the node's output has a
\* failure-reporting line for each of its failures, every such line was
\* delivered through on_output, and a node that is FAILED has at least one
\* failure-reporting line.
C16_FailuresReported ==
  \A n \in Nodes :
    /\ TaskEnded(n) => FailureLines(n) >= Failures(n)
    /\ \A k \in 1..Len(OutputOf(n)) :
         IsFailureLine(OutputOf(n)[k]) =>
           \E m \in 1..Len(OutputEvents(n)) : OutputEvents(n)[m].line = OutputOf(n)[k]
    /\ (n \in DOMAIN states /\ states[n].status = FAILED) => FailureLines(n) >= 1

\* the driver of node n has started: it has emitted something or left its
\* first line
Started(n) == sink[n] # <<>> \/ task[n].pc \notin {"idle", "pending"}

\* C17: as soon as run_all has launched the drivers, and so whenever any
\* driver has emitted a status or an output line, Executor.states has an
\* entry for exactly the configured nodes, and the entry of every node whose
\* driver has not started is PENDING with an empty history; before run_all
\* is called nothing has been emitted.
C17_StatesBeforeDrivers ==
  /\ run = "init" => \A n \in Nodes : ~Started(n)
  /\ run # "init" =>
       /\ DOMAIN states = Nodes
       /\ \A n \in Nodes :
            ~Started(n) =>
              /\ states[n].status = PENDING
              /\ states[n].output_lines = <<>>
              /\ states[n].error_message = <<"">>

\* n1's driver has reported CONNECTING while n2's has not started: n2's
\* entry is there for the callback to see
C17_Witness ==
  /\ Statuses("n1") = <<CONNECTING>>
  /\ ~Started("n2")
  /\ "n2" \in DOMAIN states

\* the place of a status in the state machine
Rank(status) ==
  IF status = PENDING THEN 0
  ELSE IF status = CONNECTING THEN 1
  ELSE IF status = RUNNING THEN 2
  ELSE 3

\* C18: for every node, CONNECTING is the first thing delivered and is
\* delivered before the connection attempt is awaited; RUNNING is delivered
\* before the first command is announced and handed to the transport; and
\* the statuses delivered for a node are in strictly increasing
\* state-machine order.
C18_StatusBeforeWork ==
  \A n \in Nodes :
    /\ (task[n].pc = "connect" \/ task[n].conn # "none") =>
         /\ sink[n] # <<>>
         /\ sink[n][1].kind = "status"
         /\ sink[n][1].status = CONNECTING
    /\ attempts[n] # <<>> =>
         \E k \in 1..Len(sink[n]) :
           /\ sink[n][k].kind = "status"
           /\ sink[n][k].status = RUNNING
           /\ \A m \in 1..k :
                sink[n][m].kind = "output" =>
                  sink[n][m].line # Cat("$ ", CommandsOf(n)[1])
    /\ \A i, j \in 1..Len(Statuses(n)) :
         i < j => Rank(Statuses(n)[i]) < Rank(Statuses(n)[j])

\* n1's first command has been handed to the transport and nothing came
\* back yet, while n2 awaits its connection
C18_Witness ==
  /\ task["n1"].pc = "launch"
  /\ task["n1"].i = 1
  /\ task["n2"].pc = "connect"

\* the error message of node n, empty before the run
ErrorMessage(n) == IF n \in DOMAIN states THEN states[n].error_message ELSE <<"">>

\* what ended the last _run_command call of node n, "none" if none has ended
LastResult(n) ==
  IF results[n] = <<>> THEN "none" ELSE results[n][Len(results[n])]

\* the error message of node n describes the failure that stopped the node
DescribesStop(n) ==
  \/ /\ cfg[n].stop_on_error
     /\ LastResult(n) \in {"Exit", "Error"}
     /\ ErrorMessage(n) = Cat("Command failed: ", CommandsOf(n)[Len(results[n])])
  \/ /\ "ssh" = task[n].conn
     /\ ErrorMessage(n) = Cat("SSH error: ", StrOf("ssh"))
  \/ /\ "os" \in {task[n].conn, LastResult(n)}
     /\ ErrorMessage(n) = Cat("Connection error: ", StrOf("os"))

C20_Frame ==
  /\ [](\A a, b \in Nodes :
          (a # b /\ LogFileOfNode(a) # NoFile) => LogFileOfNode(a) # LogFileOfNode(b))
  /\ [][run # "init" =>
          \A b \in Nodes :
            \/ /\ task'[b] # task[b]
               /\ \A a \in Nodes \ {b} : task'[a] = task[a]
            \/ /\ task'[b] = task[b]
               /\ states'[b] = states[b]
               /\ sink'[b] = sink[b]
               /\ FileLines(files', states[b].log_file)
                    = FileLines(files, states[b].log_file)]_vars

\* both nodes write a log, n1's driver has written to its own after n2's
\* wrote to its own, and n2 has not moved since
C20_Witness ==
  /\ LogFileOfNode("n1") # NoFile
  /\ LogFileOfNode("n2") # NoFile
  /\ task["n2"].pc = "connect"
  /\ task["n1"].pc = "stream"
  /\ FileLines(files, LogFileOfNode("n2")) = <<"Connecting to n2...">>

\* C22: whenever on_status is called with FAILED for a node, the error
\* message the callback can read from the node's state is not empty, and in
\* every state in which a node is FAILED its error message is not empty.
C22_MessageBeforeFailed ==
  \A n \in Nodes :
    /\ \A k \in 1..Len(sink[n]) :
         (sink[n][k].kind = "status" /\ sink[n][k].status = FAILED) =>
           sink[n][k].message # <<"">>
    /\ (n \in DOMAIN states /\ states[n].status = FAILED) =>
         states[n].error_message # <<"">>

\* C23: for every node, a terminal status event (SUCCESS or FAILED), once
\* delivered, is the last call of the node's callbacks: no output line is
\* delivered after it.
C23_TerminalEventLast ==
  \A n \in Nodes :
    \A k \in 1..Len(sink[n]) :
      (sink[n][k].kind = "status" /\ sink[n][k].status \in Terminal) =>
        k = Len(sink[n])

\* C21: when the transport answers every request and the tasks are
\* scheduled fairly, every node is eventually SUCCESS or FAILED and run_all
\* eventually returns.
C21_Termination ==
  /\ \A n \in Nodes : <>(n \in DOMAIN states /\ states[n].status \in Terminal)
  /\ <>(run = "returned")

====
